---------------------------- MODULE Spec2Model ----------------------------
(***************************************************************************)
(* A model of neutrino (src/neutrino.py): a redis-backed time series       *)
(* store.  Chunks are byte strings, slots are little-endian (value, count) *)
(* cells, the aggregation script runs atomically on the server, and        *)
(* fetch_range decodes the chunks it reads with Python's struct module.    *)
(***************************************************************************)
EXTENDS Integers, Sequences, FiniteSets, TLC

VARIABLES
    rules,    \* TimeSeries.rules: the ordered list of Rule tuples
    store,    \* the redis keyspace: chunk key -> [data: bytes, expire: deadline]
    now,      \* the redis server's clock, in seconds
    calls,    \* per producer: the update call in progress (its loop position)
    out,      \* the outcome of the last completed operation (result or exception)
    hist,     \* history: the samples the update calls traversed, rule by rule
    nops      \* number of operations started so far (bounds the exploration)

vars == <<rules, store, now, calls, out, hist, nops>>

---------------------------------------------------------------------------
(* Bytes and struct formats                                                *)

Pow2(n) == 2 ^ n

\* n null bytes
Zeros(n) == [k \in 1..n |-> 0]

\* x[a:b] of Python (0-based, end exclusive, clipped to the string)
Slice(x, a, b) ==
    LET lo == IF a < 0 THEN 0 ELSE a
        hi == IF b > Len(x) THEN Len(x) ELSE b
    IN  IF hi <= lo THEN <<>> ELSE SubSeq(x, lo + 1, hi)

\* little-endian bytes of n >= 0 in a field of w bytes (the high part is cut)
ToLE(n, w) == [k \in 1..w |-> (n \div (256 ^ (k - 1))) % 256]

RECURSIVE FromLE(_)
FromLE(bs) == IF bs = <<>> THEN 0 ELSE bs[1] + 256 * FromLE(Tail(bs))

\* floor(log2 v) for v >= 1
RECURSIVE Log2(_)
Log2(v) == IF v <= 1 THEN 0 ELSE 1 + Log2(v \div 2)

\* A float that is not a whole number in 0 .. 2^24 - 1: its numeric value is not
\* tracked, only that it is one.
NaF == -1

\* IEEE 754 single precision bit pattern of a whole number 0 <= v < 2^24
FloatBits(v) ==
    IF v = 0 THEN 0
    ELSE LET e == Log2(v)
         IN  (127 + e) * Pow2(23) + (v - Pow2(e)) * Pow2(23 - e)

\* the whole number with IEEE 754 single precision bit pattern bits < 2^31
FloatOfBits(bits, e, m) ==
    IF bits = 0 THEN 0
    ELSE IF e < 0 \/ e > 23 THEN NaF
    ELSE IF m % Pow2(23 - e) # 0 THEN NaF
    ELSE Pow2(e) + (m \div Pow2(23 - e))

FloatOf(bits) == FloatOfBits(bits, (bits \div 8388608) - 127, bits % 8388608)

\* the whole number a little-endian IEEE 754 single holds, NaF otherwise (a set
\* sign bit makes it negative)
FloatValue(bs) == IF bs[4] >= 128 THEN NaF ELSE FloatOf(FromLE(bs))

\* convert python struct format characters -> lua struct format characters;
\* the scalar types this model carries: 'f' (float) and 'B' (unsigned byte)
LUA_FORMAT == [f |-> "f", B |-> "I1"]

\* per method: the width of the count field and the combine step
LUA_METHODS ==
    [sum  |-> [bytes |-> 1, next |-> "prev + value"],
     max  |-> [bytes |-> 1, next |-> "math.max(prev,value)"],
     min  |-> [bytes |-> 1, next |-> "math.min(prev,value)"],
     avg  |-> [bytes |-> 4, next |-> "prev + value"],
     last |-> [bytes |-> 1, next |-> "value"],
     rate |-> [bytes |-> 1, next |-> "prev + value"]]

\* standard size of one struct format character
CharSize(c) ==
    CASE c = "f" -> 4
      [] c = "B" -> 1
      [] c = "I" -> 4

\* struct.calcsize('<' + fmt): standard sizes, no alignment
StdSize(fmt) == CharSize(fmt[1]) + CharSize(fmt[2])

\* struct.calcsize(fmt): native alignment, the second field starts at a multiple
\* of its own size and nothing is added after it
NativeSize(fmt) ==
    LET a == CharSize(fmt[1])
        b == CharSize(fmt[2])
        off == ((a + b - 1) \div b) * b
    IN  off + b

\* struct.pack of the value field; an integer field keeps the low byte
PackValue(c, v) ==
    IF c = "f" THEN ToLE(FloatBits(v), 4) ELSE ToLE(v % 256, 1)

UnpackValue(c, bs) ==
    IF c = "f" THEN FloatValue(bs) ELSE FromLE(bs)

\* struct.pack('<' + fmt, value, count), count given as its bytes
Pack(c, value, countBytes) == PackValue(c, value) \o countBytes


---------------------------------------------------------------------------
(* The redis commands the library uses                                     *)

\* a key without a time to live
Persistent == -1

Exists(db, key) == key \in DOMAIN db

\* GET: the string, or None (here the empty string) when the key is absent
GET(db, key) == IF Exists(db, key) THEN db[key].data ELSE <<>>

\* GETRANGE key a b: both ends inclusive, clipped to the string
GETRANGE(db, key, a, b) == Slice(GET(db, key), a, b + 1)

\* a write that cuts the string off behind the value, as SET of a prefix would
\* (what C16 must tell from SETRANGE)
SetAndCut(db, key, off, val) ==
    LET old == GET(db, key)
        padded == old \o Zeros(off - Len(old))
        expire == IF Exists(db, key) THEN db[key].expire ELSE Persistent
    IN  (key :> [data |-> Slice(padded, 0, off) \o val, expire |-> expire]) @@ db

\* SETRANGE key off val: zero-pads a short or absent string up to off
SETRANGE(db, key, off, val) ==
    LET old == GET(db, key)
        padded == old \o Zeros(off - Len(old))
        data == Slice(padded, 0, off) \o val \o Slice(padded, off + Len(val), Len(padded))
        expire == IF Exists(db, key) THEN db[key].expire ELSE Persistent
    IN  (key :> [data |-> data, expire |-> expire]) @@ db

\* a time to live that is set when the key has none and kept afterwards (what
\* C10 must tell from EXPIRE)
ExpireOnce(db, key, ttl, t) ==
    IF ~Exists(db, key) THEN db
    ELSE IF ttl <= 0 THEN [k \in DOMAIN db \ {key} |-> db[k]]
    ELSE IF db[key].expire # Persistent THEN db
    ELSE [db EXCEPT ![key].expire = t + ttl]

\* EXPIRE key ttl at server time t: a ttl that is not positive deletes the key
EXPIRE(db, key, ttl, t) ==
    IF ~Exists(db, key) THEN db
    ELSE IF ttl <= 0 THEN [k \in DOMAIN db \ {key} |-> db[k]]
    ELSE [db EXCEPT ![key].expire = t + ttl]

\* the keys whose time to live has run out at server time t are gone
Expired(db, t) == {k \in DOMAIN db : db[k].expire # Persistent /\ db[k].expire <= t}

Purge(db, t) == [k \in DOMAIN db \ Expired(db, t) |-> db[k]]

---------------------------------------------------------------------------
(* LUA_STRING: the aggregation script, one per method                      *)

\* a combine step that keeps the new sample alone, as a write that did not
\* see the previous one would (what C1 must tell from the script)
KeepValue(method, prev, value) == value

\* a combine step that adds for every method, last included (what C11 must
\* tell from the templates)
AddValue(method, prev, value) == prev + value

\* templates with math.max and math.min exchanged (what C13 must tell from
\* the templates)
SwappedValue(method, prev, value) ==
    CASE method \in {"sum", "avg", "rate"} -> prev + value
      [] method = "max" -> IF prev <= value THEN prev ELSE value
      [] method = "min" -> IF prev >= value THEN prev ELSE value
      [] method = "last" -> value

\* {{ next }} of the method's template
NextValue(method, prev, value) ==
    CASE method \in {"sum", "avg", "rate"} -> prev + value
      [] method = "max" -> IF prev >= value THEN prev ELSE value
      [] method = "min" -> IF prev <= value THEN prev ELSE value
      [] method = "last" -> value

AllFF(bs) == \A k \in 1..Len(bs) : bs[k] = 255

\* count == 0
AllZero(bs) == \A k \in 1..Len(bs) : bs[k] = 0

\* count + 1 in a little-endian field
RECURSIVE IncLE(_)
IncLE(bs) ==
    IF bs = <<>> THEN <<>>
    ELSE IF bs[1] < 255 THEN <<bs[1] + 1>> \o Tail(bs)
    ELSE <<0>> \o IncLE(Tail(bs))

\* a count that is incremented without the guard of the script (what C9 must
\* tell from NextCount)
WrapCount(bs) == IncLE(bs)

\* if count < {{ 2**(8*bytes) - 1 }} then count = count + 1 end
\* (the count is kept as its bytes: 2^32 - 1 is the field of four 255s)
NextCount(bs) == IF AllFF(bs) THEN bs ELSE IncLE(bs)

\* the body of the script's loop for one key
LuaKey(db, key, c, method, index, ttl, value, t) ==
    LET nb == LUA_METHODS[method].bytes
        size == CharSize(c) + nb
        start == index * size
        bytes == GETRANGE(db, key, start, start + size)
        one == ToLE(1, nb)
        written ==
            IF Len(bytes) < size
            THEN SETRANGE(db, key, start, Pack(c, value, one))
            ELSE LET prev == UnpackValue(c, Slice(bytes, 0, CharSize(c)))
                     count == Slice(bytes, CharSize(c), size)
                 IN  IF AllZero(count)
                     THEN SETRANGE(db, key, start, Pack(c, value, one))
                     ELSE SETRANGE(db, key, start,
                                   Pack(c, NextValue(method, prev, value), NextCount(count)))
    IN  EXPIRE(written, key, ttl, t)

\* for i, key in ipairs(KEYS): KEYS and the values are given as a mapping
RECURSIVE LuaScript(_, _, _, _, _, _, _)
LuaScript(db, match, c, method, index, ttl, t) ==
    IF DOMAIN match = {} THEN db
    ELSE LET key == CHOOSE k \in DOMAIN match : TRUE
             rest == [k \in DOMAIN match \ {key} |-> match[k]]
         IN  LuaScript(LuaKey(db, key, c, method, index, ttl, match[key], t),
                       rest, c, method, index, ttl, t)

---------------------------------------------------------------------------
(* Rules and names                                                         *)

\* rule.pattern.match(name): the regular expressions of the model match at the
\* start of the name, as re.match does
Matches(pattern, name) ==
    CASE pattern = "spam.*" -> name \in {"spam.1", "spam.2"}
      [] pattern = "blah.*" -> name \in {"blah.1"}
      [] pattern = ".*1"    -> name \in {"spam.1", "blah.1"}
      [] OTHER -> FALSE

Rule(pattern, fmt, step, chunk, ttl, method) ==
    [pattern |-> pattern, fmt |-> fmt, step |-> step, chunk |-> chunk,
     ttl |-> ttl, method |-> method]

\* a key without the ts prefix (what C14 must tell from the format string)
BareKey(rule, index, name) == <<rule.fmt, rule.step, index, name>>

\* 'ts:%s:%i:%i:%s' % (rule.fmt, rule.step, index, name)
ChunkKey(rule, index, name) == <<"ts", rule.fmt, rule.step, index, name>>

---------------------------------------------------------------------------
(* TimeSeries.update                                                       *)

\* one turn of update's loop: the script call for one rule, or the ValueError
\* of  k, v = zip(*match.iteritems())  when the rule matches no name of data
UpdateRule(db, rule, data, unix_time, t) ==
    LET index == unix_time - (unix_time % rule.chunk)
        names == {k \in DOMAIN data : Matches(rule.pattern, k)}
        match == [key \in {ChunkKey(rule, index, k) : k \in names} |-> data[key[Len(key)]]]
        offset == (unix_time % rule.chunk) \div rule.step
    IN  IF names = {}
        THEN [db |-> db, raised |-> "ValueError"]
        ELSE [db |-> LuaScript(db, match, rule.fmt, rule.method, offset, rule.ttl, t),
              raised |-> "none"]

\* the loop from rule i on, up to the first exception
RECURSIVE UpdateFrom(_, _, _, _, _, _)
UpdateFrom(db, rs, i, data, unix_time, t) ==
    IF i > Len(rs) THEN [db |-> db, raised |-> "none", done |-> Len(rs)]
    ELSE LET r == UpdateRule(db, rs[i], data, unix_time, t)
         IN  IF r.raised # "none"
             THEN [db |-> db, raised |-> r.raised, done |-> i - 1]
             ELSE UpdateFrom(r.db, rs, i + 1, data, unix_time, t)

\* n calls of update(data, unix_time) one after the other: the outcome of the
\* last one (the first half of the calls, then the rest)
RECURSIVE UpdateTimes(_, _, _, _, _, _)
UpdateTimes(db, rs, data, unix_time, t, n) ==
    IF n <= 1 THEN UpdateFrom(db, rs, 1, data, unix_time, t)
    ELSE LET half == UpdateTimes(db, rs, data, unix_time, t, n \div 2)
         IN  IF half.done >= 0
             THEN UpdateTimes(half.db, rs, data, unix_time, t, n - (n \div 2))
             ELSE half

---------------------------------------------------------------------------
(* TimeSeries.fetch_range                                                  *)

\* Pad x with null bytes to the right; an absent (or empty) x gives size nulls
pad(x, size) ==
    IF x # <<>> THEN x \o Zeros(size - Len(x)) ELSE Zeros(size)

\* range(a, b, d) of Python for d > 0
RECURSIVE range(_, _, _)
range(a, b, d) == IF a >= b THEN <<>> ELSE <<a>> \o range(a + d, b, d)

\* an unstable variant of the insertion below: a rule goes in front of the
\* earlier rules of the same step (what C5 must tell from Python's sort)
InsertBeforeTies(order, i, rs) ==
    LET before == SelectSeq(order, LAMBDA j : rs[j].step < rs[i].step)
        after == SelectSeq(order, LAMBDA j : rs[j].step >= rs[i].step)
    IN  before \o <<i>> \o after

\* sorted(rules, key=step) as the positions of the rules: Python's sort is
\* stable, a rule goes behind the earlier rules of the same step
InsertByStep(order, i, rs) ==
    LET before == SelectSeq(order, LAMBDA j : rs[j].step <= rs[i].step)
        after == SelectSeq(order, LAMBDA j : rs[j].step > rs[i].step)
    IN  before \o <<i>> \o after

RECURSIVE SortedUpTo(_, _)
SortedUpTo(rs, n) ==
    IF n = 0 THEN <<>> ELSE InsertByStep(SortedUpTo(rs, n - 1), n, rs)

sorted(rs) == SortedUpTo(rs, Len(rs))

reversed(seq) == [k \in 1..Len(seq) |-> seq[Len(seq) + 1 - k]]

\* a loop that breaks on the first matching rule whatever its step (what C4
\* must tell from the loop of fetch_range)
RECURSIVE FirstMatching(_, _, _, _)
FirstMatching(order, rs, name, step) ==
    IF order = <<>> THEN 0
    ELSE IF Matches(rs[Head(order)].pattern, name)
         THEN Head(order)
         ELSE FirstMatching(Tail(order), rs, name, step)

\* the for ... break ... else of fetch_range: the position of the first rule of
\* the order that matches name with rule.step <= step, 0 when the loop runs out
RECURSIVE FirstRule(_, _, _, _)
FirstRule(order, rs, name, step) ==
    IF order = <<>> THEN 0
    ELSE IF Matches(rs[Head(order)].pattern, name) /\ rs[Head(order)].step <= step
         THEN Head(order)
         ELSE FirstRule(Tail(order), rs, name, step)

Resolve(rs, name, step) == FirstRule(reversed(sorted(rs)), rs, name, step)

RECURSIVE Join(_)
Join(chunks) == IF chunks = <<>> THEN <<>> ELSE Head(chunks) \o Join(Tail(chunks))

\* struct.unpack('<' + fmt, piece); struct.error (here the empty tuple) when
\* the piece is shorter than the format
unpack(fmt, piece) ==
    IF Len(piece) < StdSize(fmt) THEN <<>>
    ELSE <<UnpackValue(fmt[1], Slice(piece, 0, CharSize(fmt[1]))),
           FromLE(Slice(piece, CharSize(fmt[1]), StdSize(fmt)))>>

\* unpack_array(fmt, array_string): one tuple per size bytes
unpack_array(fmt, array_string) ==
    [k \in 1..((Len(array_string) + StdSize(fmt) - 1) \div StdSize(fmt)) |->
        unpack(fmt, Slice(array_string, (k - 1) * StdSize(fmt), k * StdSize(fmt)))]

RECURSIVE GCD(_, _)
GCD(a, b) == IF b = 0 THEN a ELSE GCD(b, a % b)

None == <<>>

\* a number of the result, as a fraction in lowest terms
Num(x) == <<x, 1>>

\* x/n of Python 2: the floor for two integers, the quotient when x is a float
Div(c, x, n) ==
    IF x = NaF THEN Num(NaF)
    ELSE IF c = "f" THEN <<x \div GCD(x, n), n \div GCD(x, n)>>
    ELSE Num(x \div n)

\* the final transform of one (value, count) tuple
Final(rule, xn) ==
    LET x == xn[1]
        n == xn[2]
    IN  IF n = 0 THEN None
        ELSE IF rule.method = "avg" THEN Div(rule.fmt, x, n)
        ELSE IF rule.method = "rate" THEN Div(rule.fmt, x, rule.step)
        ELSE Num(x)

\* the struct format of a slot: the count is 'I' for avg and 'B' otherwise
SlotFmt(rule) == <<rule.fmt, IF rule.method = "avg" THEN "I" ELSE "B">>

\* the keys of  p.get('ts:%s:%i:%i:%s' % (rule.fmt, rule.step, i, name))  for i
\* in range(index_start, index_stop + 1, rule.chunk)
FetchKeys(rule, name, start, stop) ==
    LET index_start == start - (start % rule.chunk)
        index_stop == stop - (stop % rule.chunk)
        indexes == range(index_start, index_stop + 1, rule.chunk)
    IN  [k \in 1..Len(indexes) |-> ChunkKey(rule, indexes[k], name)]

\* chunks = map(partial(pad, size=chunk_size), p.execute()): one GET per chunk
\* window from index_start to index_stop
FetchChunks(db, rule, name, start, stop) ==
    LET chunk_size == NativeSize(SlotFmt(rule)) * rule.chunk
        keys == FetchKeys(rule, name, start, stop)
    IN  [k \in 1..Len(keys) |-> pad(GET(db, keys[k]), chunk_size)]

\* select = [offset_start + (start % rule.step + i)//rule.step
\*           for i in range(0, stop-start, step)]
FetchSelect(rule, start, stop, step) ==
    LET offset_start == (start % rule.chunk) \div rule.step
        steps == range(0, stop - start, step)
    IN  [k \in 1..Len(steps) |->
            offset_start + (((start % rule.step) + steps[k]) \div rule.step)]

\* series = list(unpack_array(...)); series = [series[i] for i in select];
\* then the method's final transform.  The list has one tuple per size bytes of
\* joined, and building it raises when the last piece is short.
FetchFilter(rule, select, joined, series) ==
    IF Len(joined) % StdSize(SlotFmt(rule)) # 0
    THEN [raised |-> "struct.error", value |-> <<>>]
    ELSE IF \E k \in 1..Len(select) : select[k] >= Len(joined) \div StdSize(SlotFmt(rule))
    THEN [raised |-> "IndexError", value |-> <<>>]
    ELSE [raised |-> "none",
          value |-> [k \in 1..Len(select) |-> Final(rule, series[select[k] + 1])]]

FetchJoined(rule, select, joined) ==
    FetchFilter(rule, select, joined, unpack_array(SlotFmt(rule), joined))

\* the body of fetch_range once the rule is found
FetchWith(db, rule, name, start, stop, step) ==
    FetchJoined(rule, FetchSelect(rule, start, stop, step),
                Join(FetchChunks(db, rule, name, start, stop)))

\* fetch_range(name, start, stop, step) on the rule list rs and the keyspace db
fetch_range(rs, db, name, start, stop, step) ==
    LET i == Resolve(rs, name, step)
    IN  IF i = 0
        THEN [raised |-> "RuntimeError", rule |-> 0, value |-> <<>>]
        ELSE [rule |-> i] @@ FetchWith(db, rs[i], name, start, stop, step)

---------------------------------------------------------------------------
(* TimeSeries.add_rule                                                     *)

\* a registration that appends before it validates (what C8 must tell from
\* add_rule)
add_rule_then_check(rs, pattern, fmt, step, chunk, ttl, method) ==
    [rules |-> Append(rs, [pattern |-> pattern, fmt |-> fmt, step |-> step,
                           chunk |-> chunk, ttl |-> ttl, method |-> method]),
     raised |-> IF method \in DOMAIN LUA_METHODS /\ fmt \in DOMAIN LUA_FORMAT
                THEN "none" ELSE "ValueError"]

\* add_rule on the rule list rs: the list afterwards and the exception raised
add_rule(rs, pattern, fmt, step, chunk, ttl, method) ==
    IF method \notin DOMAIN LUA_METHODS
    THEN [rules |-> rs, raised |-> "ValueError"]
    ELSE IF fmt \notin DOMAIN LUA_FORMAT
    THEN [rules |-> rs, raised |-> "ValueError"]
    ELSE [rules |-> Append(rs, Rule(pattern, fmt, step, chunk, ttl, method)),
          raised |-> "none"]

---------------------------------------------------------------------------
(* The state machine                                                       *)

\* bounds of the exploration
MaxRules == 2
MaxUpdates == 2
MaxNow == 4
MaxCalls == 3

Procs == {1, 2}

EmptyDb == [k \in {} |-> 0]

Idle == [pc |-> "idle", data |-> EmptyDb, unix_time |-> 0, i |-> 0]

\* the record of a completed operation
Outcome(op, args, raised, rule, value) ==
    [op |-> op, args |-> args, raised |-> raised, rule |-> rule, value |-> value,
     at |-> now]

\* __init__: no rules; the keyspace is empty
Init ==
    /\ rules = <<>>
    /\ store = EmptyDb
    /\ now = 0
    /\ calls = [p \in Procs |-> Idle]
    /\ out = Outcome("init", <<>>, "none", 0, <<>>)
    /\ hist = <<>>
    /\ nops = 0

AllIdle == \A p \in Procs : calls[p].pc = "idle"

\* what one update call leaves in the history: the call, the server time, how
\* many rules of the list its loop completed, and how many other calls were
\* running when it ended
Sample(data, unix_time, n, done, busy) ==
    [data |-> data, unix_time |-> unix_time, n |-> n, done |-> done, at |-> now,
     busy |-> busy]

\* add_rule returned or raised: r is what add_rule made of the rule list
AddRuleDone(args, r) ==
    /\ rules' = r.rules
    /\ out' = Outcome("add_rule", args, r.raised, 0, <<>>)
    /\ UNCHANGED <<store, now, calls, hist, nops>>

\* a call of add_rule
AddRule(pattern, fmt, step, chunk, ttl, method) ==
    /\ AllIdle
    /\ Len(rules) < MaxRules
    /\ AddRuleDone(<<pattern, fmt, step, chunk, ttl, method>>,
                   add_rule(rules, pattern, fmt, step, chunk, ttl, method))

\* update returned or raised: r is what its loop made of the keyspace
UpdateDone(data, unix_time, n, r) ==
    /\ store' = r.db
    /\ out' = Outcome("update", <<data, unix_time, n>>, r.raised, r.done, <<>>)
    /\ hist' = Append(hist, Sample(data, unix_time, n, r.done, 0))
    /\ nops' = nops + 1
    /\ UNCHANGED <<rules, now, calls>>

\* n calls of update(data, unix_time) by one caller, nothing running in between
Update(data, unix_time, n) ==
    /\ AllIdle
    /\ nops < MaxUpdates
    /\ UpdateDone(data, unix_time, n,
                  UpdateTimes(store, rules, data, unix_time, now, n))

\* a fetch_range that takes the time to live off the keys (what C19 must tell
\* from the GETs of fetch_range)
FetchRangePersisting(args, r) ==
    /\ out' = Outcome("fetch_range", args, r.raised, r.rule, r.value)
    /\ store' = [k \in DOMAIN store |-> [store[k] EXCEPT !.expire = Persistent]]
    /\ UNCHANGED <<rules, now, calls, hist, nops>>

\* fetch_range returned or raised
FetchRangeDone(args, r) ==
    /\ out' = Outcome("fetch_range", args, r.raised, r.rule, r.value)
    /\ UNCHANGED <<rules, store, now, calls, hist, nops>>

\* a call of fetch_range: the pipeline of GETs runs as one transaction
FetchRange(name, start, stop, step) ==
    FetchRangeDone(<<name, start, stop, step>>,
                   fetch_range(rules, store, name, start, stop, step))

\* a producer enters update(data, unix_time): nothing is sent yet
UpdateBegin(p, data, unix_time) ==
    /\ calls[p].pc = "idle"
    /\ rules # <<>>
    /\ nops < MaxCalls
    /\ calls' = [calls EXCEPT ![p] = [pc |-> "update", data |-> data,
                                      unix_time |-> unix_time, i |-> 1]]
    /\ nops' = nops + 1
    /\ UNCHANGED <<rules, store, now, out, hist>>

\* the call of producer p ends after done turns of its loop
UpdateEnd(p, raised, done) ==
    /\ calls' = [calls EXCEPT ![p] = Idle]
    /\ out' = Outcome("update", <<calls[p].data, calls[p].unix_time, 1>>,
                      raised, done, <<>>)
    /\ hist' = Append(hist, Sample(calls[p].data, calls[p].unix_time, 1, done,
                                   Cardinality({q \in Procs \ {p} :
                                                   calls[q].pc # "idle"})))

\* one turn of the loop of producer p, r its outcome: the server runs the
\* script call of one rule as a whole; the call returns after the last rule
\* and ends at the first exception
UpdateTurn(p, r) ==
    /\ store' = r.db
    /\ IF r.raised # "none" THEN UpdateEnd(p, r.raised, calls[p].i - 1)
       ELSE IF calls[p].i = Len(rules) THEN UpdateEnd(p, "none", Len(rules))
       ELSE /\ calls' = [calls EXCEPT ![p].i = calls[p].i + 1]
            /\ UNCHANGED <<out, hist>>
    /\ UNCHANGED <<rules, now, nops>>

UpdateStep(p) ==
    /\ calls[p].pc = "update"
    /\ UpdateTurn(p, UpdateRule(store, rules[calls[p].i], calls[p].data,
                                calls[p].unix_time, now))

\* a second passes on the server: the keys whose time to live ran out are gone
Tick ==
    /\ now < MaxNow
    /\ now' = now + 1
    /\ store' = Purge(store, now + 1)
    /\ UNCHANGED <<rules, calls, out, hist, nops>>

---------------------------------------------------------------------------
(* The rule table: any caller, any order of add_rule, update and fetch_range *)

\* the mappings name -> value a caller hands to update
Datas(names, values) == UNION {[ns -> values] : ns \in SUBSET names \ {{}}}

\* the add_rule calls of the model: two steps that tie, a coarser step, a
\* pattern that matches other names, a chunk span that is no multiple of the
\* step, an unknown format and an unknown method
RuleArgs ==
    {<<"spam.*", "f", 1, 4, 9, "sum">>,
     <<".*1",    "f", 1, 4, 9, "last">>,
     <<"spam.*", "f", 3, 6, 9, "sum">>,
     <<"blah.*", "f", 3, 6, 9, "sum">>,
     <<"spam.*", "f", 2, 3, 9, "sum">>,
     <<"spam.*", "x", 1, 4, 9, "sum">>,
     <<"spam.*", "f", 1, 4, 9, "median">>}

Next ==
    \/ \E a \in RuleArgs : AddRule(a[1], a[2], a[3], a[4], a[5], a[6])
    \/ \E names \in {{"spam.1"}, {"spam.1", "blah.1"}} :
          Update([k \in names |-> 3], 1, 1)
    \/ \E q \in {<<"spam.1", 1>>, <<"spam.1", 2>>, <<"spam.1", 3>>,
                  <<"blah.1", 1>>} :
          FetchRange(q[1], 0, 6, q[2])

Spec == Init /\ [][Next]_vars

---------------------------------------------------------------------------
(* Several producers                                                        *)

\* sum rules of two steps: their chunks have different keys
ConcRules == {<<"spam.*", "f", 2, 4, 9, "sum">>, <<".*1", "f", 1, 4, 9, "sum">>}

\* the calls of the producers: two instants of one step-2 bucket
ConcCalls == {<<[k \in {"spam.1"} |-> 1], 0>>, <<[k \in {"spam.1"} |-> 3], 1>>}

\* the calls one producer made before the others start: the count is one
\* short of its field's largest value
Aged == 254

NextConc ==
    \/ \E a \in ConcRules :
          /\ \A i \in 1..Len(rules) : rules[i].step # a[3]
          /\ AddRule(a[1], a[2], a[3], a[4], a[5], a[6])
    \/ rules # <<>> /\ hist = <<>> /\ Update([k \in {"spam.1"} |-> 1], 0, Aged)
    \/ \E p \in Procs, c \in ConcCalls : UpdateBegin(p, c[1], c[2])
    \/ \E p \in Procs : UpdateStep(p)

SpecConc == Init /\ [][NextConc]_vars

---------------------------------------------------------------------------
(* One rule, one caller: the store under a single registered rule          *)

Methods == DOMAIN LUA_METHODS

\* the rules a TimeSeries is configured with here: <<fmt, step, chunk, method>>
OneRules ==
    {<<"f", 1, 2, m>> : m \in Methods}
        \cup {<<"f", 2, 4, "sum">>, <<"f", 2, 4, "rate">>, <<"f", 1, 4, "avg">>,
              <<"B", 1, 2, "sum">>, <<"B", 1, 2, "max">>, <<"B", 1, 4, "avg">>}

\* unix times of the samples: the windows 0, 2 and 4 of a chunk span of 2
Times == {0, 1, 2, 4}

Values == {0, 3}

\* the caller registers one rule of the set rs, then updates and fetches
NextOneOf(rs) ==
    \/ \E r \in rs :
          /\ rules = <<>>
          /\ AddRule("spam.*", r[1], r[2], r[3], 9, r[4])
    \/ \E data \in Datas({"spam.1"}, Values), unix_time \in Times :
          /\ rules # <<>>
          /\ Update(data, unix_time, 1)
    \/ \E span \in {<<0, 1>>, <<0, 3>>, <<1, 3>>, <<0, 6>>}, step \in {1, 2} :
          /\ rules # <<>>
          /\ FetchRange("spam.1", span[1], span[2], step)

NextOne == NextOneOf(OneRules)

NextFloat == NextOneOf({r \in OneRules : r[1] = "f"})

\* one rule of a float type
SpecFloat == Init /\ [][NextFloat]_vars

SpecOne == Init /\ [][NextOne]_vars

---------------------------------------------------------------------------
(* One rule whose result is a quotient                                     *)

\* <<fmt, step, chunk, method>>: avg and rate on a float, rate on an integer
DivRules == {<<"f", 1, 4, "avg">>, <<"f", 2, 4, "rate">>, <<"B", 2, 4, "rate">>}

NextDiv == NextOneOf(DivRules)

SpecDiv == Init /\ [][NextDiv]_vars

---------------------------------------------------------------------------
(* One rule, many writes to a slot                                         *)

\* the update calls of the caller, <<value, unix_time, calls in a row>>: 255
\* calls in a row fill a one-byte count
ManyCalls == {<<0, 0, 1>>, <<0, 0, 255>>, <<3, 0, 1>>, <<3, 1, 1>>, <<3, 1, 255>>}

\* <<fmt, step, chunk, method>>: every method on a float, and a one-byte type
ManyRules ==
    {<<"f", 1, 2, m>> : m \in Methods}
        \cup {<<"B", 1, 2, "sum">>, <<"B", 1, 4, "avg">>}

NextMany ==
    \/ \E r \in ManyRules :
          /\ rules = <<>>
          /\ AddRule("spam.*", r[1], r[2], r[3], 9, r[4])
    \/ \E c \in ManyCalls :
          /\ rules # <<>>
          /\ Update([k \in {"spam.1"} |-> c[1]], c[2], c[3])
    \/ \E stop \in {1, 2} :
          /\ rules # <<>>
          /\ FetchRange("spam.1", 0, stop, 1)

SpecMany == Init /\ [][NextMany]_vars

---------------------------------------------------------------------------
(* One rule with a short time to live, and the server's clock              *)

\* <<ttl, method>> of the rule: float, step 1, chunk span 2
ShortRules == {<<2, "sum">>, <<3, "last">>}

NextTTL ==
    \/ \E r \in ShortRules :
          /\ rules = <<>>
          /\ AddRule("spam.*", "f", 1, 2, r[1], r[2])
    \/ \E unix_time \in {0, 2} :
          /\ rules # <<>>
          /\ Update([k \in {"spam.1"} |-> 3], unix_time, 1)
    \/ \E start \in {0, 2} :
          /\ rules # <<>>
          /\ FetchRange("spam.1", start, start + 2, 1)
    \/ Tick

SpecTTL == Init /\ [][NextTTL]_vars

---------------------------------------------------------------------------
(* One rule, two names, and the server's clock                             *)

\* <<step, chunk, method>> of the rule: float, ttl 3
FrameRules == {<<1, 2, "sum">>, <<2, 4, "max">>}

\* the update calls: <<names, unix time>>
FrameCalls == {<<{"spam.1", "spam.2"}, 0>>, <<{"spam.1"}, 1>>, <<{"spam.1"}, 2>>,
               <<{"spam.2"}, 2>>}

NextFrame ==
    \/ \E r \in FrameRules :
          /\ rules = <<>>
          /\ AddRule("spam.*", "f", r[1], r[2], 3, r[3])
    \/ \E c \in FrameCalls :
          /\ rules # <<>>
          /\ Update([k \in c[1] |-> 3], c[2], 1)
    \/ \E step \in {1, 2} :
          /\ rules # <<>>
          /\ FetchRange("spam.1", 0, 4, step)
    \/ Tick

SpecFrame == Init /\ [][NextFrame]_vars

---------------------------------------------------------------------------
(* What the history says a slot should hold                                *)

\* the samples rule i received for name with unix time in lo .. hi - 1, oldest
\* first, as <<value, number of calls>>
RECURSIVE SamplesIn(_, _, _, _, _)
SamplesIn(h, i, name, lo, hi) ==
    IF h = <<>> THEN <<>>
    ELSE LET e == Head(h)
             hit == /\ i <= e.done
                    /\ name \in DOMAIN e.data
                    /\ Matches(rules[i].pattern, name)
                    /\ lo <= e.unix_time /\ e.unix_time < hi
         IN  (IF hit THEN <<<<e.data[name], e.n>>>> ELSE <<>>)
                 \o SamplesIn(Tail(h), i, name, lo, hi)

RECURSIVE SumOf(_)
SumOf(xs) == IF xs = <<>> THEN 0 ELSE Head(xs)[1] * Head(xs)[2] + SumOf(Tail(xs))

RECURSIVE CountOf(_)
CountOf(xs) == IF xs = <<>> THEN 0 ELSE Head(xs)[2] + CountOf(Tail(xs))

MaxOf(xs) == CHOOSE v \in {xs[k][1] : k \in 1..Len(xs)} :
                 \A k \in 1..Len(xs) : xs[k][1] <= v

MinOf(xs) == CHOOSE v \in {xs[k][1] : k \in 1..Len(xs)} :
                 \A k \in 1..Len(xs) : xs[k][1] >= v

Frac(a, b) == <<a \div GCD(a, b), b \div GCD(a, b)>>

\* the aggregate of a method over samples xs, None when there is none
Aggregate(rule, xs) ==
    IF xs = <<>> THEN None
    ELSE CASE rule.method = "sum" -> Num(SumOf(xs))
           [] rule.method = "max" -> Num(MaxOf(xs))
           [] rule.method = "min" -> Num(MinOf(xs))
           [] rule.method = "last" -> Num(xs[Len(xs)][1])
           [] rule.method = "avg" -> Frac(SumOf(xs), CountOf(xs))
           [] rule.method = "rate" -> Frac(SumOf(xs), rule.step)

\* the aggregate of the samples of name in the step bucket of instant x
ExpectedAt(i, name, x) ==
    Aggregate(rules[i],
              SamplesIn(hist, i, name, (x \div rules[i].step) * rules[i].step,
                        (x \div rules[i].step + 1) * rules[i].step))

\* the chunk window of an instant under a rule
Window(rule, x) == x - (x % rule.chunk)

\* the (value, count) the keyspace holds for name at instant x under a rule: the
\* slot at offset (x mod chunk) / step of the chunk of x's window, (0, 0) when
\* the chunk is absent or ends before the slot
StoredSlot(db, rule, name, x) ==
    LET size == StdSize(SlotFmt(rule))
        offset == (x % rule.chunk) \div rule.step
        data == GET(db, ChunkKey(rule, Window(rule, x), name))
        piece == Slice(data, offset * size, (offset + 1) * size)
    IN  unpack(SlotFmt(rule), pad(piece, size))

\* the arguments of the fetch_range call that out reports
FetchName == out.args[1]
FetchStart == out.args[2]
FetchStop == out.args[3]
FetchStep == out.args[4]
FetchLen == Len(range(0, FetchStop - FetchStart, FetchStep))

\* C2: with one registered rule whose chunk span is a multiple of its step,
\* samples that all lie in one chunk window, and start and stop inside that
\* window, fetch_range at the rule's step returns at position i the aggregate
\* of the samples in the step bucket of start + i*step, None for an empty one.
C2_FetchOneWindow ==
    (/\ out.op = "fetch_range"
     /\ Len(rules) = 1
     /\ rules[1].chunk % rules[1].step = 0
     /\ FetchStep = rules[1].step
     /\ Window(rules[1], FetchStart) = Window(rules[1], FetchStop)
     /\ \A k \in 1..Len(hist) :
            Window(rules[1], hist[k].unix_time) = Window(rules[1], FetchStart))
    => /\ out.raised = "none"
       /\ out.value = [k \in 1..FetchLen |->
                          ExpectedAt(1, FetchName, FetchStart + (k - 1) * FetchStep)]

\* C3: with one registered rule whose chunk span is a multiple of its step, a
\* fetch_range at the rule's step over several chunk windows completes without
\* error and returns at position i the content of the slot of instant
\* start + i*step in the chunk window of that instant (None for an empty slot,
\* so None for every slot of a window that was never written).
C3_FetchSeveralWindows ==
    (/\ out.op = "fetch_range"
     /\ Len(rules) = 1
     /\ rules[1].chunk % rules[1].step = 0
     /\ FetchStep = rules[1].step
     /\ Window(rules[1], FetchStart) < Window(rules[1], FetchStop))
    => /\ out.raised = "none"
       /\ out.value = [k \in 1..FetchLen |->
                          Final(rules[1],
                                StoredSlot(store, rules[1], FetchName,
                                           FetchStart + (k - 1) * FetchStep))]

\* the smaller of two numbers
Min(a, b) == IF a <= b THEN a ELSE b

\* the samples rule i received for name in the step bucket of instant x
BucketSamples(i, name, x) ==
    SamplesIn(hist, i, name, (x \div rules[i].step) * rules[i].step,
              (x \div rules[i].step + 1) * rules[i].step)

\* C1: for sum rules with chunks of their own, whenever no update call is
\* running, every slot of a name holds the sum of all the samples the finished
\* calls sent into its step bucket and, as count, their number capped at 255
\* (nothing when there was none), whatever the order in which the server ran
\* the script calls of the producers.
C1_SumUnderProducers ==
    (/\ AllIdle
     /\ \A i, j \in 1..Len(rules) :
           i # j => <<rules[i].fmt, rules[i].step>> # <<rules[j].fmt, rules[j].step>>)
    => \A i \in 1..Len(rules) : \A x \in 0..(rules[i].chunk - 1) :
          rules[i].method = "sum"
          => StoredSlot(store, rules[i], "spam.1", x)
               = IF BucketSamples(i, "spam.1", x) = <<>> THEN <<0, 0>>
                 ELSE <<SumOf(BucketSamples(i, "spam.1", x)),
                        Min(CountOf(BucketSamples(i, "spam.1", x)), 255)>>

\* two calls that ran at the same time, after 254 earlier ones, went into one
\* slot: it holds the 256 samples with count 255
C1_Witness ==
    /\ AllIdle
    /\ Len(hist) = 3 /\ hist[1].n = Aged /\ hist[2].busy = 1
    /\ hist[2].data # hist[3].data
    /\ \E i \in 1..Len(rules) :
          /\ rules[i].step = 2
          /\ StoredSlot(store, rules[i], "spam.1", 0) = <<Aged + 4, 255>>

\* the rules fetch_range may use for the call that out reports: they match the
\* name and their step is at most the requested step
Qualifying ==
    {i \in 1..Len(rules) : /\ Matches(rules[i].pattern, FetchName)
                           /\ rules[i].step <= FetchStep}

\* C4: fetch_range uses a rule that matches the name and whose step is the
\* largest step not above the requested step; when no rule matches with such a
\* step it raises (RuntimeError) and returns nothing.
C4_LargestStepNotAbove ==
    out.op = "fetch_range"
    => IF Qualifying = {}
       THEN out.raised = "RuntimeError" /\ out.rule = 0 /\ out.value = <<>>
       ELSE /\ out.raised # "RuntimeError"
            /\ out.rule \in Qualifying
            /\ \A j \in Qualifying : rules[j].step <= rules[out.rule].step

\* a fetch at step 2 of a name with a step-1 and a step-3 rule used the step-1
\* rule
C4_Witness ==
    /\ out.op = "fetch_range" /\ FetchStep = 2
    /\ \E i, j \in 1..Len(rules) :
          /\ Matches(rules[i].pattern, FetchName) /\ rules[i].step = 1
          /\ Matches(rules[j].pattern, FetchName) /\ rules[j].step = 3
          /\ out.rule = i

\* a fetch finer than the only matching rule raised
C4_WitnessNone ==
    /\ out.op = "fetch_range" /\ out.raised = "RuntimeError"
    /\ \E i \in 1..Len(rules) : Matches(rules[i].pattern, FetchName)

\* the qualifying rules of the step fetch_range used
Tied == {j \in Qualifying : rules[j].step = rules[out.rule].step}

\* C5 as the specification states it: among the matching rules that share the
\* largest qualifying step, fetch_range uses the one registered first.
C5_FirstRegisteredWins ==
    (out.op = "fetch_range" /\ out.rule # 0) => \A j \in Tied : out.rule <= j

\* C5 as the code has it: among the matching rules that share the largest
\* qualifying step, fetch_range uses the one registered last.
C5_LastRegisteredWins ==
    (out.op = "fetch_range" /\ out.rule # 0) => \A j \in Tied : out.rule >= j

\* a fetch with two tied rules used the second
C5_Witness ==
    /\ out.op = "fetch_range" /\ out.rule = 2
    /\ Tied = {1, 2}

\* C6: update with a rule that matches no name of data raises nothing, and
\* every rule that matches a name of data has its script run.
C6_UpdateSkipsUnmatched ==
    out.op = "update"
    => /\ out.raised = "none"
       /\ \A i \in 1..Len(rules) :
             (\E name \in DOMAIN out.args[1] : Matches(rules[i].pattern, name))
             => i <= out.rule

\* C7: add_rule raises for a chunk span that is no multiple of the step, so
\* every registered rule has chunk % step = 0.
C7_ChunkMultipleOfStep ==
    /\ \A i \in 1..Len(rules) : rules[i].chunk % rules[i].step = 0
    /\ (out.op = "add_rule" /\ out.args[4] % out.args[3] # 0)
       => out.raised = "ValueError"

\* C8: an add_rule call with a method that is no key of LUA_METHODS or a
\* format that is no key of LUA_FORMAT raises ValueError and leaves the rule
\* list (and the keyspace) as it was.
C8_InvalidRuleRejected ==
    [][(/\ out' # out
        /\ out'.op = "add_rule"
        /\ (out'.args[6] \notin DOMAIN LUA_METHODS
            \/ out'.args[2] \notin DOMAIN LUA_FORMAT))
       => (out'.raised = "ValueError" /\ rules' = rules /\ store' = store)]_vars

\* an add_rule with an unknown method was rejected with a rule registered
C8_Witness ==
    /\ out.op = "add_rule" /\ out.raised = "ValueError"
    /\ out.args[6] \notin DOMAIN LUA_METHODS
    /\ Len(rules) >= 1

\* the count a slot holds after n writes: capped at 255 in its one byte (the
\* four bytes of avg are not filled within the bounds)
CountAfter(rule, n) == IF rule.method = "avg" THEN n ELSE Min(n, 255)

Writes(name, w) ==
    {k \in 1..Len(hist) : /\ hist[k].done >= 1
                          /\ name \in DOMAIN hist[k].data
                          /\ Window(rules[1], hist[k].unix_time) = w}

\* the server time of the most recent of a set of writes
LastWrite(ws) == CHOOSE t \in {hist[k].at : k \in ws} :
                     \A k \in ws : hist[k].at <= t

\* C10: with one rule, the chunk key of a window exists exactly at the server
\* times earlier than (time of the most recent update that wrote it) + ttl,
\* whenever it was created; and a fetch_range of a window whose key is gone
\* returns None for all its slots.
C10_SlidingExpiration ==
    Len(rules) = 1
    => \A w \in {0, 2} :
          LET key == ChunkKey(rules[1], w, "spam.1")
              ws == Writes("spam.1", w)
          IN  /\ Exists(store, key)
                  <=> (ws # {} /\ now < LastWrite(ws) + rules[1].ttl)
              /\ (/\ out.op = "fetch_range" /\ out.at = now
                  /\ FetchStart = w /\ ~Exists(store, key))
                 => out.value = [k \in 1..FetchLen |-> None]

\* a key written at times 0 and 1 with ttl 2 is still there at time 2, after
\* its first time to live ran out
C10_Witness ==
    /\ Len(rules) = 1 /\ rules[1].ttl = 2 /\ now = 2
    /\ \E k, l \in Writes("spam.1", 0) : hist[k].at = 0 /\ hist[l].at = 1
    /\ Exists(store, ChunkKey(rules[1], 0, "spam.1"))

\* a key written at time 0 with ttl 2 is gone at time 2 and fetch_range
\* returned None for its slots
C10_WitnessGone ==
    /\ Len(rules) = 1 /\ rules[1].ttl = 2 /\ now = 2
    /\ Writes("spam.1", 0) # {} /\ LastWrite(Writes("spam.1", 0)) = 0
    /\ ~Exists(store, ChunkKey(rules[1], 0, "spam.1"))
    /\ out.op = "fetch_range" /\ out.at = now /\ FetchStart = 0
    /\ out.value = <<None, None>>

\* every finished update call had the same data and unix time
SameCalls ==
    /\ hist # <<>>
    /\ \A k \in 1..Len(hist) :
          hist[k].data = hist[1].data /\ hist[k].unix_time = hist[1].unix_time

\* the number of update calls of the history
RECURSIVE NCalls(_)
NCalls(h) == IF h = <<>> THEN 0 ELSE Head(h).n + NCalls(Tail(h))

\* the keyspace after a single call of the first update of the history
Once == UpdateFrom(EmptyDb, rules, 1, hist[1].data, hist[1].unix_time, now).db

\* C11: with one rule of method last, after any number of update calls with
\* the same data and unix time (more than 255 included) every fetch_range
\* returns what it returns after a single such call; with one rule of method
\* sum, the slot holds the sample after one call and twice the sample after
\* the second identical call.
C11_LastIdempotentSumDoubles ==
    (Len(rules) = 1 /\ SameCalls)
    => /\ (rules[1].method = "last" /\ out.op = "fetch_range")
          => /\ out.raised = "none"
             /\ out.value = fetch_range(rules, Once, FetchName, FetchStart,
                                        FetchStop, FetchStep).value
       /\ (rules[1].method = "sum" /\ NCalls(hist) <= 2)
          => StoredSlot(store, rules[1], "spam.1", hist[1].unix_time)[1]
               = NCalls(hist) * hist[1].data["spam.1"]

\* 510 identical calls under a last rule, and fetch_range returned the sample
C11_Witness ==
    /\ Len(rules) = 1 /\ rules[1].method = "last" /\ SameCalls
    /\ NCalls(hist) > 255
    /\ out.op = "fetch_range" /\ FetchStop = 2
    /\ out.value = <<None, Num(3)>>

\* two identical calls under a sum rule: the slot holds twice the sample
C11_WitnessSum ==
    /\ Len(rules) = 1 /\ rules[1].method = "sum" /\ SameCalls
    /\ NCalls(hist) = 2
    /\ StoredSlot(store, rules[1], "spam.1", 0) = <<6, 2>>

\* C12: with one rule of method avg or rate, a slot that received samples
\* x1..xk holds their sum (with count k for avg), and a fetch_range at the
\* rule's step inside one chunk window returns for the slot the sum divided by
\* k for avg and the sum divided by the rule's step for rate.
C12_AvgRateQuotient ==
    (Len(rules) = 1 /\ rules[1].method \in {"avg", "rate"})
    => /\ \A x \in 0..(rules[1].chunk - 1) :
             LET xs == BucketSamples(1, "spam.1", x)
                 slot == StoredSlot(store, rules[1], "spam.1", x)
             IN  xs # <<>>
                 => /\ slot[1] = SumOf(xs)
                    /\ rules[1].method = "avg" => slot[2] = CountOf(xs)
       /\ (/\ out.op = "fetch_range"
           /\ FetchStep = rules[1].step
           /\ Window(rules[1], FetchStart) = Window(rules[1], FetchStop)
           /\ \A k \in 1..Len(hist) :
                 Window(rules[1], hist[k].unix_time) = Window(rules[1], FetchStart))
          => /\ out.raised = "none"
             /\ \A k \in 1..FetchLen :
                   LET xs == BucketSamples(1, FetchName,
                                           FetchStart + (k - 1) * FetchStep)
                   IN  xs # <<>>
                       => out.value[k]
                            = IF rules[1].method = "avg"
                              THEN Frac(SumOf(xs), CountOf(xs))
                              ELSE Frac(SumOf(xs), rules[1].step)

\* the combine step of max and min applied to the samples xs in turn, from prev
RECURSIVE FoldFrom(_, _, _)
FoldFrom(method, prev, xs) ==
    IF xs = <<>> THEN prev
    ELSE FoldFrom(method,
                  IF method = "max"
                  THEN (IF prev >= Head(xs)[1] THEN prev ELSE Head(xs)[1])
                  ELSE (IF prev <= Head(xs)[1] THEN prev ELSE Head(xs)[1]),
                  Tail(xs))

\* C13 as the specification states it: with one rule of method max or min, the
\* value of a slot is the fold of max(prev, x) (min(prev, x)) over its samples
\* starting from prev = 0.
C13_FoldFromZero ==
    (Len(rules) = 1 /\ rules[1].method \in {"max", "min"})
    => \A x \in 0..(rules[1].chunk - 1) :
          BucketSamples(1, "spam.1", x) # <<>>
          => StoredSlot(store, rules[1], "spam.1", x)[1]
               = FoldFrom(rules[1].method, 0, BucketSamples(1, "spam.1", x))

\* C13 as the code has it: the first sample of a slot is stored as it is, and
\* the value of the slot is the fold of max(prev, x) (min(prev, x)) over the
\* later samples starting from the first.
C13_FoldFromFirst ==
    (Len(rules) = 1 /\ rules[1].method \in {"max", "min"})
    => \A x \in 0..(rules[1].chunk - 1) :
          LET xs == BucketSamples(1, "spam.1", x)
          IN  xs # <<>>
              => StoredSlot(store, rules[1], "spam.1", x)[1]
                   = FoldFrom(rules[1].method, Head(xs)[1], Tail(xs))

\* a slot of a min rule received 3 and then 0 and holds 0, and a slot of a max
\* rule received 0 and then 3 and holds 3
C13_Witness ==
    /\ Len(rules) = 1 /\ rules[1].method \in {"max", "min"}
    /\ LET xs == BucketSamples(1, "spam.1", 0)
       IN  /\ Len(xs) = 2
           /\ xs[1][1] = (IF rules[1].method = "min" THEN 3 ELSE 0)
           /\ xs[2][1] = (IF rules[1].method = "min" THEN 0 ELSE 3)
           /\ StoredSlot(store, rules[1], "spam.1", 0)
                = <<xs[2][1], 2>>

\* the keys the fetch_range call that out reports read
KeysRead ==
    IF out.op = "fetch_range" /\ out.rule # 0
    THEN {FetchKeys(rules[out.rule], FetchName, FetchStart, FetchStop)[k] :
             k \in 1..Len(FetchKeys(rules[out.rule], FetchName, FetchStart,
                                    FetchStop))}
    ELSE {}

\* the update calls of the history wrote key under rule 1: it carries the
\* rule's type and step, a name of the call, and the start of the chunk window
\* of the call's unix time, after the given leading components
WrittenAs(key, lead) ==
    \E k \in 1..Len(hist) : \E name \in DOMAIN hist[k].data :
        /\ hist[k].done >= 1
        /\ key = lead \o <<rules[1].fmt, rules[1].step,
                           hist[k].unix_time - (hist[k].unix_time % rules[1].chunk),
                           name>>

\* fetch_range read key under rule 1: it carries the rule's type and step, the
\* name asked for, and the start of a chunk window from that of start to that
\* of stop, after the given leading components
ReadAs(key, lead) ==
    \E i \in FetchStart - (FetchStart % rules[1].chunk)..FetchStop :
        /\ i % rules[1].chunk = 0
        /\ key = lead \o <<rules[1].fmt, rules[1].step, i, FetchName>>

\* C14 as the specification states it: with one rule, every key written and
\* every key read has the four components type, step, chunk index, name.
C14_FourComponentKeys ==
    Len(rules) = 1
    => /\ \A key \in DOMAIN store : WrittenAs(key, <<>>)
       /\ \A key \in KeysRead : ReadAs(key, <<>>)

\* C14 as the code has it: with one rule, every key written and every key read
\* has the five components ts, type, step, chunk index, name.
C14_PrefixedKeys ==
    Len(rules) = 1
    => /\ \A key \in DOMAIN store : WrittenAs(key, <<"ts">>)
       /\ \A key \in KeysRead : ReadAs(key, <<"ts">>)

\* updates wrote two chunk windows and a fetch_range read them and two more
C14_Witness ==
    /\ Len(rules) = 1
    /\ Cardinality(DOMAIN store) = 2
    /\ Cardinality(KeysRead) = 4
    /\ DOMAIN store \subseteq KeysRead

\* C15: with one rule whose chunk span is a multiple of its step, a
\* fetch_range at a step not below the rule's returns ceil((stop - start)/step)
\* entries, and entry i is what the last step of fetch_range makes of the one
\* slot whose step bucket contains start + i*step.
C15_OneSlotPerEntry ==
    (/\ out.op = "fetch_range"
     /\ Len(rules) = 1
     /\ rules[1].chunk % rules[1].step = 0
     /\ FetchStep >= rules[1].step)
    => /\ out.raised = "none"
       /\ Len(out.value) = (FetchStop - FetchStart + FetchStep - 1) \div FetchStep
       /\ \A k \in 1..Len(out.value) :
             out.value[k]
               = Final(rules[1],
                       StoredSlot(store, rules[1], FetchName,
                                  FetchStart + (k - 1) * FetchStep))

\* the keys the last update call of history h touched under rule 1
Touched(h) ==
    {ChunkKey(rules[1], Window(rules[1], h[Len(h)].unix_time), name) :
        name \in {n \in DOMAIN h[Len(h)].data : Matches(rules[1].pattern, n)}}

\* C16: with one rule, an update call changes, in the chunk keys of the names
\* it carries in the window of its unix time, only the slot of that unix time
\* and the expiration: every other slot of these chunks keeps its (value,
\* count), and every other key stays as it is, there or not, with its content
\* and its expiration.
C16_UpdateFrame ==
    [][(Len(rules) = 1 /\ hist' # hist)
       => LET t == hist'[Len(hist')].unix_time
              keys == Touched(hist')
          IN  /\ \A key \in (DOMAIN store \cup DOMAIN store') \ keys :
                    /\ key \in DOMAIN store /\ key \in DOMAIN store'
                    /\ store'[key] = store[key]
              /\ \A name \in {"spam.1", "spam.2"} : \A x \in 0..3 :
                    (x \div rules[1].step # t \div rules[1].step)
                    => StoredSlot(store', rules[1], name, x)
                         = StoredSlot(store, rules[1], name, x)
              /\ \A key \in keys :
                    /\ key \in DOMAIN store'
                    /\ store'[key].expire = now + rules[1].ttl]_vars

\* two keys with different expirations, one of them with two written slots
C16_Witness ==
    /\ Len(rules) = 1 /\ Len(hist) = 2
    /\ \E k1, k2 \in DOMAIN store : store[k1].expire < store[k2].expire
    /\ \E x \in 1..3 :
          /\ x \div rules[1].step # 0
          /\ Window(rules[1], x) = 0
          /\ StoredSlot(store, rules[1], "spam.1", 0)[2] = 1
          /\ StoredSlot(store, rules[1], "spam.1", x)[2] = 1

\* C19: a fetch_range call, whether it returns or raises, leaves the keyspace
\* (the content and the expiration of every key) and the rule list as they
\* were.
C19_FetchFrame ==
    [][(out' # out /\ out'.op = "fetch_range")
       => (store' = store /\ rules' = rules)]_vars

\* a fetch_range returned and another raised with keys in the keyspace
C19_Witness ==
    /\ out.op = "fetch_range" /\ out.raised = "none"
    /\ DOMAIN store # {}
    /\ \E k \in 1..Len(out.value) : out.value[k] # None

C19_WitnessRaised ==
    /\ out.op = "fetch_range" /\ out.raised = "RuntimeError"
    /\ DOMAIN store # {}

\* the rules whose pattern matches a name
Matching(name) == {i \in 1..Len(rules) : Matches(rules[i].pattern, name)}

\* C17: after an update call, each sample of the call is in the slot of its
\* unix time under every registered rule that matches its name, and a
\* fetch_range of that name at that unix time returns a number whatever rule
\* the requested step resolves to.
C17_EveryMatchingRule ==
    out.op = "update"
    => \A name \in DOMAIN out.args[1] :
          /\ \A i \in Matching(name) :
                StoredSlot(store, rules[i], name, out.args[2])[2] >= 1
          /\ \A step \in 1..3 :
                LET r == fetch_range(rules, store, name, out.args[2],
                                     out.args[2] + 1, step)
                IN  r.rule # 0 => (r.raised = "none" /\ r.value[1] # None)

\* the rules under which the update calls of the history wrote a key
Writers(key) ==
    {rules[i] : i \in {j \in 1..Len(rules) :
        \E k \in 1..Len(hist) : \E name \in DOMAIN hist[k].data :
            /\ j <= hist[k].done
            /\ Matches(rules[j].pattern, name)
            /\ key = ChunkKey(rules[j], Window(rules[j], hist[k].unix_time), name)}}

\* C18: every chunk of the keyspace was written under one rule only.
C18_OneRulePerKey ==
    \A key \in DOMAIN store : Cardinality(Writers(key)) <= 1

===========================================================================
